---- MODULE Spec2Model ----
(***************************************************************************)
(* Model of the single-block AES engine of src/src/lib.rs: the block type  *)
(* AESBlock<State>, its constructors, the forward round transformations    *)
(* (add_roundkey, sub_bytes, shift_row, shift_grid, mix_column,            *)
(* mix_columns), the round driver encrypt and the decrypt entry point.     *)
(*                                                                         *)
(* A Vec<u8> is a sequence of naturals below 256.  Rust indexes from 0,    *)
(* sequences from 1: the byte the code calls v[i] is v[i + 1] here.        *)
(* A Rust panic (index out of bounds, range out of bounds, arithmetic      *)
(* overflow) is the value Panic, which every caller passes on.             *)
(***************************************************************************)
EXTENDS Integers, Sequences, FiniteSets

\* blk, call, origin and nops are the caller's state.  overflow_checks is
\* the build: TRUE when integer overflow panics (debug builds, the build
\* the tests run in), FALSE when it wraps (rustc -O).
VARIABLES blk, call, origin, nops, overflow_checks

vars == <<blk, call, origin, nops, overflow_checks>>

(***************************************************************************)
(* Values                                                                  *)
(***************************************************************************)

\* The outcome of a call that panicked: a sequence that is no byte vector.
Panic == <<-1>>

Min(a, b) == IF a < b THEN a ELSE b

\* vec![0, 1, ..., n - 1] style vectors: n bytes start, start + step, ...
Ramp(n, start, step) == [i \in 1..n |-> (start + step * (i - 1)) % 256]

(***************************************************************************)
(* u8 arithmetic                                                           *)
(***************************************************************************)

RECURSIVE xor_bits(_, _, _)
xor_bits(a, b, n) ==
    IF n = 0 THEN 0
    ELSE (((a % 2) + (b % 2)) % 2) + 2 * xor_bits(a \div 2, b \div 2, n - 1)

\* The table of a ^ b on u8, computed once
xor_table == [a \in 0..255 |-> [b \in 0..255 |-> xor_bits(a, b, 8)]]

\* a ^ b on u8
xor(a, b) == xor_table[a][b]

\* AESBlock::<DecryptedState>::S_BOX
S_BOX ==
   << 99, 124, 119, 123, 242, 107, 111, 197, 48, 1, 103, 43, 254, 215, 171, 118,
      202, 130, 201, 125, 250, 89, 71, 240, 173, 212, 162, 175, 156, 164, 114, 192,
      183, 253, 147, 38, 54, 63, 247, 204, 52, 165, 229, 241, 113, 216, 49, 21,
      4, 199, 35, 195, 24, 150, 5, 154, 7, 18, 128, 226, 235, 39, 178, 117,
      9, 131, 44, 26, 27, 110, 90, 160, 82, 59, 214, 179, 41, 227, 47, 132,
      83, 209, 0, 237, 32, 252, 177, 91, 106, 203, 190, 57, 74, 76, 88, 207,
      208, 239, 170, 251, 67, 77, 51, 133, 69, 249, 2, 127, 80, 60, 159, 168,
      81, 163, 64, 143, 146, 157, 56, 245, 188, 182, 218, 33, 16, 255, 243, 210,
      205, 12, 19, 236, 95, 151, 68, 23, 196, 167, 126, 61, 100, 93, 25, 115,
      96, 129, 79, 220, 34, 42, 144, 136, 70, 238, 184, 20, 222, 94, 11, 219,
      224, 50, 58, 10, 73, 6, 36, 92, 194, 211, 172, 98, 145, 149, 228, 121,
      231, 200, 55, 109, 141, 213, 78, 169, 108, 86, 244, 234, 101, 122, 174, 8,
      186, 120, 37, 46, 28, 166, 180, 198, 232, 221, 116, 31, 75, 189, 139, 138,
      112, 62, 181, 102, 72, 3, 246, 14, 97, 53, 87, 185, 134, 193, 29, 158,
      225, 248, 152, 17, 105, 217, 142, 148, 155, 30, 135, 233, 206, 85, 40, 223,
      140, 161, 137, 13, 191, 230, 66, 104, 65, 153, 45, 15, 176, 84, 187, 22 >>

(***************************************************************************)
(* Round transformations                                                   *)
(***************************************************************************)

\* Variant of add_roundkey: the key is added instead of XORed
add_roundkey_adds(data, roundkey) ==
    IF Len(roundkey) < Len(data) THEN Panic
    ELSE [idx \in 1..Len(data) |-> (data[idx] + roundkey[idx]) % 256]

\* add_roundkey: result[idx] = data[idx] ^ roundkey[idx] for every idx of
\* data; indexing roundkey past its end panics.
add_roundkey(data, roundkey) ==
    IF Len(roundkey) < Len(data) THEN Panic
    ELSE [idx \in 1..Len(data) |-> xor(data[idx], roundkey[idx])]

\* sub_bytes: result[idx] = S_BOX[data[idx]]
sub_bytes(data) == [idx \in 1..Len(data) |-> S_BOX[data[idx] + 1]]

\* Variant of shift_row: the row is rotated to the right
shift_row_right(row, shift) ==
    [j \in 1..Len(row) |->
        LET idx == CHOOSE i \in 0..(Len(row) - 1) :
                      (i + shift) % Len(row) = j - 1
        IN  row[idx + 1]]

\* Width of usize in bits
usize_bits == 64

\* 2^n % m
RECURSIVE pow2_mod(_, _)
pow2_mod(n, m) == IF n = 0 THEN 1 % m ELSE (2 * pow2_mod(n - 1, m)) % m

\* (idx + len - shift) % len in usize arithmetic without overflow checks:
\* a difference below zero wraps to 2^usize_bits + idx + len - shift.
wrapped_idx(idx, len, shift) ==
    IF idx + len >= shift THEN (idx + len - shift) % len
    ELSE (pow2_mod(usize_bits, len) + ((idx + len - shift) % len)) % len

\* shift_row: result = vec![0; row.len()], then for idx in order
\* result[(idx + row.len() - shift) % row.len()] = row[idx].
\* idx + row.len() - shift is below zero for idx = 0 when row.len() < shift:
\* a build with overflow checks panics there, a build without them wraps,
\* and then two idx may land on one position (the later one stays) and a
\* position no idx lands on keeps its 0.
shift_row(row, shift) ==
    IF overflow_checks /\ Len(row) > 0 /\ Len(row) < shift THEN Panic
    ELSE [j \in 1..Len(row) |->
            LET hits == {i \in 0..(Len(row) - 1) :
                            wrapped_idx(i, Len(row), shift) = j - 1}
            IN  IF hits = {} THEN 0
                ELSE row[(CHOOSE i \in hits : \A k \in hits : k <= i) + 1]]

\* data.chunks(4): the number of chunks and chunk number idx (from 0)
num_chunks(data) == (Len(data) + 3) \div 4

chunk(data, idx) == SubSeq(data, 4 * idx + 1, Min(4 * idx + 4, Len(data)))

\* shift_grid: chunk idx is shifted by idx and spliced over the range
\* idx * 4 .. idx * 4 + 4 of result, which panics when the range ends
\* past the end of result.  From chunk 5 on (24 bytes and more) the shift
\* is larger than the chunk and the outcome is the build's: see shift_row.
shift_grid(data) ==
    IF \E idx \in 0..(num_chunks(data) - 1) :
          \/ shift_row(chunk(data, idx), idx) = Panic
          \/ idx * 4 + 4 > Len(data)
    THEN Panic
    ELSE [i \in 1..Len(data) |->
            shift_row(chunk(data, (i - 1) \div 4), (i - 1) \div 4)[((i - 1) % 4) + 1]]

\* Variant of mix_b: the doubled byte is not reduced by 0x1B
mix_b_unreduced(x) == (x * 2) % 256

\* b[c] = data[c] << 1; b[c] ^= ((data[c] >> 7) & 1) * 0x1B
mix_b(x) == xor((x * 2) % 256, ((x \div 128) % 2) * 27)

\* mix_column: the column must have at least 4 bytes
mix_column(data) ==
    IF Len(data) < 4 THEN Panic
    ELSE LET a == [c \in 1..4 |-> data[c]]
             b == [c \in 1..4 |-> mix_b(data[c])]
         IN  << xor(xor(xor(xor(b[1], a[4]), a[3]), b[2]), a[2]),
                xor(xor(xor(xor(b[2], a[1]), a[4]), b[3]), a[3]),
                xor(xor(xor(xor(b[3], a[2]), a[1]), b[4]), a[4]),
                xor(xor(xor(xor(b[4], a[3]), a[2]), b[1]), a[1]) >>

\* data.iter().skip(skip).step_by(4).collect()
step_by4(data, skip) ==
    [i \in 1..((Len(data) - skip + 3) \div 4) |-> data[skip + 4 * (i - 1) + 1]]

\* mix_columns: the four columns are mixed and written back row-major
mix_columns(data) ==
    LET col1 == mix_column(step_by4(data, 0))
        col2 == mix_column(step_by4(data, 1))
        col3 == mix_column(step_by4(data, 2))
        col4 == mix_column(step_by4(data, 3))
    IN  IF col1 = Panic \/ col2 = Panic \/ col3 = Panic \/ col4 = Panic
        THEN Panic
        ELSE << col1[1], col2[1], col3[1], col4[1],
                col1[2], col2[2], col3[2], col4[2],
                col1[3], col2[3], col3[3], col4[3],
                col1[4], col2[4], col3[4], col4[4] >>

(***************************************************************************)
(* Blocks and the round driver                                             *)
(***************************************************************************)

\* AESBlock<State>: the grid and the marker type
AESBlock(grid, state) == [grid |-> grid, state |-> state]

\* AESBlock::<DecryptedState>::new
new_decrypted(data) == AESBlock(data, "DecryptedState")

\* AESBlock::<EncryptedState>::new
new_encrypted(data) == AESBlock(data, "EncryptedState")

\* One entry of the record of the calls encrypt makes: the transformation,
\* the round it is made in (0 before the loop, idx + 1 in iteration idx) and
\* the index of the round key it is given (-1 when it takes none).
Step(fn, round, key) == [fn |-> fn, round |-> round, key |-> key]

\* The body of the loop of encrypt for one idx.  st.result is the variable
\* result, st.trace the calls made so far.
encrypt_round(st, roundkeys, idx) ==
    IF st.result = Panic THEN st
    ELSE
    LET subbed  == sub_bytes(st.result)
        shifted == shift_grid(subbed)
        mix     == idx # Len(roundkeys) - 1
        mixed   == IF shifted = Panic THEN Panic
                   ELSE IF mix THEN mix_columns(shifted) ELSE shifted
        added   == IF mixed = Panic THEN Panic
                   ELSE add_roundkey(mixed, roundkeys[idx + 1])
        t1 == st.trace \o << Step("sub_bytes", idx + 1, -1),
                             Step("shift_grid", idx + 1, -1) >>
        t2 == IF shifted # Panic /\ mix
              THEN t1 \o << Step("mix_columns", idx + 1, -1) >> ELSE t1
        t3 == IF mixed # Panic
              THEN t2 \o << Step("add_roundkey", idx + 1, idx) >> ELSE t2
    IN  [result |-> added, trace |-> t3]

\* for (idx, _) in roundkeys.iter().skip(1).enumerate(): idx = 0 .. len - 2
RECURSIVE encrypt_loop(_, _, _)
encrypt_loop(st, roundkeys, idx) ==
    IF idx > Len(roundkeys) - 2 THEN st
    ELSE encrypt_loop(encrypt_round(st, roundkeys, idx), roundkeys, idx + 1)

\* encrypt up to the construction of the returned block; roundkeys[0] of an
\* empty schedule panics.
encrypt_run(grid, roundkeys) ==
    IF Len(roundkeys) = 0 THEN [result |-> Panic, trace |-> << >>]
    ELSE encrypt_loop([result |-> add_roundkey(grid, roundkeys[1]),
                       trace  |-> << Step("add_roundkey", 0, 0) >>],
                      roundkeys, 0)

\* Variant of encrypt: the returned block keeps the marker of self
encrypt_keeps_state(self, roundkeys) ==
    AESBlock(encrypt_run(self.grid, roundkeys).result, self.state)

\* AESBlock::<DecryptedState>::encrypt; a grid of Panic means encrypt
\* panicked and returned nothing.
encrypt(self, roundkeys) ==
    AESBlock(encrypt_run(self.grid, roundkeys).result, "EncryptedState")

\* AESBlock::<EncryptedState>::decrypt: both arguments are ignored
decrypt(self, roundkeys, unused) == AESBlock(self.grid, "DecryptedState")

(***************************************************************************)
(* Inputs                                                                  *)
(***************************************************************************)

\* Number of calls of one run of the caller
MaxOps == 3

\* Largest seed of the generated grids
MaxSeed == 63

\* tests: the grid and the round key of test_add_roundkey and test_encrypt
TestGrid == Ramp(16, 0, 1)

TestKey == << 0, 2, 4, 8, 12, 1, 3, 5, 7, 9, 11, 13, 15, 2, 3, 4 >>

TestKeys == [i \in 1..11 |-> TestKey]

\* Known-answer vector: plaintext, AES-128 schedule of the key 00 01 .. 0f
\* and expected ciphertext
KatPlain == Ramp(16, 0, 17)

KatKeys ==
   << <<0, 1, 2, 3, 4, 5, 6, 7, 8, 9, 10, 11, 12, 13, 14, 15>>,
      <<214, 170, 116, 253, 210, 175, 114, 250, 218, 166, 120, 241, 214, 171, 118, 254>>,
      <<182, 146, 207, 11, 100, 61, 189, 241, 190, 155, 197, 0, 104, 48, 179, 254>>,
      <<182, 255, 116, 78, 210, 194, 201, 191, 108, 89, 12, 191, 4, 105, 191, 65>>,
      <<71, 247, 247, 188, 149, 53, 62, 3, 249, 108, 50, 188, 253, 5, 141, 253>>,
      <<60, 170, 163, 232, 169, 159, 157, 235, 80, 243, 175, 87, 173, 246, 34, 170>>,
      <<94, 57, 15, 125, 247, 166, 146, 150, 167, 85, 61, 193, 10, 163, 31, 107>>,
      <<20, 249, 112, 26, 227, 95, 226, 140, 68, 10, 223, 77, 78, 169, 192, 38>>,
      <<71, 67, 135, 53, 164, 28, 101, 185, 224, 22, 186, 244, 174, 191, 122, 210>>,
      <<84, 153, 50, 209, 240, 133, 87, 104, 16, 147, 237, 156, 190, 44, 151, 78>>,
      <<19, 17, 29, 127, 227, 148, 74, 23, 243, 7, 167, 139, 77, 43, 48, 197>> >>

KatCipher == << 105, 196, 224, 216, 106, 123, 4, 48,
                216, 205, 183, 128, 112, 180, 197, 90 >>

\* A schedule of n round keys of len bytes, no two of them equal
Schedule(n, len) == [i \in 1..n |-> Ramp(len, 16 * i + 3, 5)]

ScheduleLens == {0, 1, 10, 11, 12, 13, 15, 16}

ValidLens == {11, 13, 15}

Schedules == {Schedule(n, 16) : n \in ScheduleLens}
                 \cup {Schedule(11, 15), TestKeys, KatKeys}

\* Byte vectors handed to new: 16 bytes, and 0, 15 and 17 bytes
Datas == {TestGrid, KatPlain, Ramp(16, 200, 9),
          << >>, Ramp(15, 0, 1), Ramp(17, 0, 1)}

(***************************************************************************)
(* The caller: it holds at most one block and calls new, encrypt, decrypt  *)
(***************************************************************************)

NoBlock == AESBlock(<< >>, "None")

NoOrigin == [grid |-> << >>, set |-> FALSE, keys |-> << >>]

\* The last call: function, the block or vector it was applied to (data,
\* tag), the round keys, the shift, what it returned, and for encrypt the
\* calls it made.  prev is the data of the call before, when this call was
\* applied to that call's result.
Call(fn, data, tag, keys, shift, ret, trace, prev) ==
    [data |-> data, shift |-> shift, fn |-> fn, trace |-> trace,
     keys |-> keys, tag |-> tag, ret |-> ret, prev |-> prev]

NoCall == Call("none", << >>, "None", << >>, 0, << >>, << >>, Panic)

Init ==
    /\ blk = NoBlock
    /\ call = NoCall
    /\ origin = NoOrigin
    /\ nops = 0
    /\ overflow_checks \in BOOLEAN

Running == nops < MaxOps /\ call.ret # Panic

NewDecrypted(data) ==
    /\ Running
    /\ blk' = new_decrypted(data)
    /\ call' = Call("new", data, "None", << >>, 0, data, << >>, Panic)
    /\ origin' = NoOrigin
    /\ nops' = nops + 1
    /\ UNCHANGED overflow_checks

NewEncrypted(data) ==
    /\ Running
    /\ blk' = new_encrypted(data)
    /\ call' = Call("new", data, "None", << >>, 0, data, << >>, Panic)
    /\ origin' = NoOrigin
    /\ nops' = nops + 1
    /\ UNCHANGED overflow_checks

\* encrypt exists only for AESBlock<DecryptedState>.  The caller keeps the
\* returned block; when encrypt panics there is none and the run ends.
Encrypt(roundkeys) ==
    /\ Running
    /\ blk.state = "DecryptedState"
    /\ LET out == encrypt(blk, roundkeys)
       IN  /\ call' = Call("encrypt", blk.grid, blk.state, roundkeys, 0,
                           out.grid, encrypt_run(blk.grid, roundkeys).trace,
                           Panic)
           /\ blk' = IF out.grid = Panic THEN blk ELSE out
           /\ origin' = IF out.grid = Panic THEN NoOrigin
                        ELSE [grid |-> blk.grid, set |-> TRUE,
                              keys |-> roundkeys]
    /\ nops' = nops + 1
    /\ UNCHANGED overflow_checks

\* decrypt exists only for AESBlock<EncryptedState>
Decrypt(roundkeys) ==
    /\ Running
    /\ blk.state = "EncryptedState"
    /\ LET out == decrypt(blk, roundkeys, << >>)
       IN  /\ call' = Call("decrypt", blk.grid, blk.state, roundkeys, 0,
                           out.grid, << >>, Panic)
           /\ blk' = out
    /\ UNCHANGED <<origin, overflow_checks>>
    /\ nops' = nops + 1

Next ==
    \/ \E data \in Datas : NewDecrypted(data)
    \/ \E data \in Datas : NewEncrypted(data)
    \/ \E roundkeys \in Schedules : Encrypt(roundkeys)
    \/ \E roundkeys \in Schedules : Decrypt(roundkeys)

Spec == Init /\ [][Next]_vars

(***************************************************************************)
(* The transformations called on their own, as the unit tests call them.   *)
(* The arguments are drawn by the initial state, the call is the step.     *)
(***************************************************************************)

\* The arguments are chosen and nothing has been called yet
InitUnit(datas, keylists, shifts) ==
    /\ blk = NoBlock
    /\ origin = NoOrigin
    /\ nops = 0
    /\ overflow_checks \in BOOLEAN
    /\ call \in {Call("none", data, "None", keys, shift, << >>, << >>, Panic) :
                    data \in datas, keys \in keylists, shift \in shifts}

\* A call of a transformation leaves the caller's block alone
Unit(c) ==
    /\ call' = c
    /\ UNCHANGED <<blk, origin, nops, overflow_checks>>

\* 16-byte grids with 16 different bytes
SeedGrids == {Ramp(16, s, m) : s \in 0..MaxSeed, m \in {1, 17}}

\* Vectors for shift_grid: the 16-byte grids, and vectors that are no grid
\* (the last chunk short, more than 4 chunks, more than 5 chunks)
ShiftDatas == SeedGrids \cup {Ramp(n, 0, 1) : n \in {0, 15, 17, 20, 24, 32}}

\* Round keys for add_roundkey
RoundKeys == {TestKey, KatKeys[2], Ramp(16, 255, 254)}

CallAddRoundkey ==
    /\ call.fn = "none"
    /\ Unit(Call("add_roundkey", call.data, "None", call.keys, 0,
                 add_roundkey(call.data, call.keys[1]), << >>, Panic))

\* add_roundkey applied to what the last add_roundkey returned, same key
CallAddRoundkeyAgain ==
    /\ call.fn = "add_roundkey"
    /\ call.prev = Panic
    /\ Unit(Call("add_roundkey", call.ret, "None", call.keys, 0,
                 add_roundkey(call.ret, call.keys[1]), << >>, call.data))

InitAddRoundkey ==
    InitUnit(SeedGrids, {<< roundkey >> : roundkey \in RoundKeys}, {0})

NextAddRoundkey == CallAddRoundkey \/ CallAddRoundkeyAgain

SpecAddRoundkey == InitAddRoundkey /\ [][NextAddRoundkey]_vars

\* shift_row on one row of the grid
CallShiftRow(idx) ==
    /\ call.fn = "none"
    /\ Unit(Call("shift_row", chunk(call.data, idx), "None", << >>, call.shift,
                 shift_row(chunk(call.data, idx), call.shift), << >>, Panic))

CallShiftGrid ==
    /\ call.fn = "none"
    /\ Unit(Call("shift_grid", call.data, "None", << >>, 0,
                 shift_grid(call.data), << >>, Panic))

\* shift_row is given shifts up to 8: from 5 on the build decides
InitShift == InitUnit(ShiftDatas, {<< >>}, 0..8)

NextShift ==
    \/ \E idx \in 0..(num_chunks(call.data) - 1) : CallShiftRow(idx)
    \/ CallShiftGrid

SpecShift == InitShift /\ [][NextShift]_vars

\* Bytes of the columns handed to mix_column, from both halves of u8
MixBytes == {1, 19, 69, 83, 128, 219}

\* tests: the grid of test_mix_columns2
TestMixGrid == << 219, 242, 1, 198, 19, 10, 1, 198,
                  83, 34, 1, 198, 69, 92, 1, 198 >>

\* grid with the column col (numbered from 0) replaced by the bytes of a
WithColumn(grid, col, a) ==
    [i \in 1..16 |-> IF (i - 1) % 4 = col THEN a[((i - 1) \div 4) + 1]
                     ELSE grid[i]]

MixGrids ==
    {WithColumn(TestMixGrid, col, <<a0, a1, a2, a3>>) :
        col \in {0, 2}, a0 \in MixBytes, a1 \in MixBytes,
        a2 \in MixBytes, a3 \in MixBytes}

\* mix_column on one column of the grid
CallMixColumn(col) ==
    /\ call.fn = "none"
    /\ Unit(Call("mix_column", step_by4(call.data, col), "None", << >>, 0,
                 mix_column(step_by4(call.data, col)), << >>, Panic))

CallMixColumns ==
    /\ call.fn = "none"
    /\ Unit(Call("mix_columns", call.data, "None", << >>, 0,
                 mix_columns(call.data), << >>, Panic))

InitMix == InitUnit(MixGrids, {<< >>}, {0})

NextMix ==
    \/ \E col \in 0..3 : CallMixColumn(col)
    \/ CallMixColumns

SpecMix == InitMix /\ [][NextMix]_vars

(***************************************************************************)
(* Properties                                                              *)
(***************************************************************************)

\* Bit i of the byte x, and XOR of bytes stated bit by bit
Bit(x, i) == (x \div (2 ^ i)) % 2

IsXorOf(r, a, b) ==
    /\ r \in 0..255
    /\ \A i \in 0..7 : Bit(r, i) = (IF Bit(a, i) = Bit(b, i) THEN 0 ELSE 1)

XorBit(a, b, i) == IF Bit(a, i) = Bit(b, i) THEN 0 ELSE 2 ^ i

ByteXor(a, b) ==
    XorBit(a, b, 0) + XorBit(a, b, 1) + XorBit(a, b, 2) + XorBit(a, b, 3)
        + XorBit(a, b, 4) + XorBit(a, b, 5) + XorBit(a, b, 6) + XorBit(a, b, 7)

\* The call was encrypt and it returned a block
Encrypted == call.fn = "encrypt" /\ call.ret # Panic

\* The indexes of the round keys encrypt combined into the state, in order
KeyIndexes(trace) ==
    LET IsAdd(s) == s.fn = "add_roundkey"
        adds == SelectSeq(trace, IsAdd)
    IN  [k \in 1..Len(adds) |-> adds[k].key]

\* The transformations encrypt applied in round i, in order
StepsOfRound(trace, i) ==
    LET InRound(s) == s.round = i
        steps == SelectSeq(trace, InRound)
    IN  [k \in 1..Len(steps) |-> steps[k].fn]

\* Every round key is 16 bytes
KeysAre16(roundkeys) == \A i \in 1..Len(roundkeys) : Len(roundkeys[i]) = 16

\* C1: decrypt with the schedule (11, 13 or 15 round keys of 16 bytes) that
\* encrypt was given returns the 16 bytes that were encrypted.
RoundTrip ==
    ( /\ call.fn = "decrypt"
      /\ origin.set
      /\ call.keys = origin.keys
      /\ Len(call.keys) \in ValidLens
      /\ KeysAre16(call.keys)
      /\ Len(origin.grid) = 16 )
    => blk.grid = origin.grid

\* C2: encrypt of a 16-byte block with N round keys combines the round keys
\* schedule[0], schedule[1], ..., schedule[N-1] into the state, each once,
\* in this order (schedule[i] in round i).
RoundKeyOrder ==
    (Encrypted /\ Len(call.data) = 16)
    => KeyIndexes(call.trace) = [k \in 1..Len(call.keys) |-> k - 1]

\* C3: encrypt with N round keys applies SubBytes, ShiftRows, MixColumns,
\* AddRoundKey in rounds 1 .. N-2 and SubBytes, ShiftRows, AddRoundKey in
\* round N-1: MixColumns N-2 times, never in the last round.
FinalRoundOmitsMixColumns ==
    (Encrypted /\ Len(call.data) = 16 /\ Len(call.keys) \in ValidLens)
    => LET N == Len(call.keys)
       IN  /\ \A i \in 1..(N - 2) :
                StepsOfRound(call.trace, i) =
                   << "sub_bytes", "shift_grid", "mix_columns", "add_roundkey" >>
           /\ StepsOfRound(call.trace, N - 1) =
                   << "sub_bytes", "shift_grid", "add_roundkey" >>

\* C4: encrypt returns a cipher block only for a schedule of 11, 13 or 15
\* round keys; for any other number of round keys it fails and returns none.
ScheduleLengthValidated ==
    call.fn = "encrypt"
    => \/ Len(call.keys) \in ValidLens
       \/ call.ret = Panic /\ blk.state # "EncryptedState"

\* C5: every block that exists holds exactly 16 bytes (new fails on any
\* other length and creates no block).
BlockLengthValidated == blk.state # "None" => Len(blk.grid) = 16

\* C6: encrypt takes a block tagged DecryptedState to a block tagged
\* EncryptedState, decrypt a block tagged EncryptedState to a block tagged
\* DecryptedState; no call takes a block to a block of the same tag.
PhaseTagging ==
    /\ Encrypted
         => call.tag = "DecryptedState" /\ blk.state = "EncryptedState"
    /\ call.fn = "decrypt"
         => call.tag = "EncryptedState" /\ blk.state = "DecryptedState"
    /\ call.fn \in {"encrypt", "decrypt"} /\ call.ret # Panic
         => blk.state # call.tag

PhaseTaggingWitness ==
    /\ call.fn = "decrypt"
    /\ origin.set
    /\ call.tag = "EncryptedState"
    /\ blk.state = "DecryptedState"

\* C7: encrypt of 00112233445566778899aabbccddeeff with the AES-128
\* schedule of the key 000102030405060708090a0b0c0d0e0f returns
\* 69c4e0d86a7b0430d8cdb78070b4c55a.
KnownAnswer ==
    (call.fn = "encrypt" /\ call.data = KatPlain /\ call.keys = KatKeys)
    => call.ret = KatCipher

\* 2x and 3x in GF(2^8) as the claim states them
Times2(x) == IF x >= 128 THEN ByteXor((2 * x) % 256, 27) ELSE (2 * x) % 256

Times3(x) == ByteXor(Times2(x), x)

Xor4(a, b, c, d) == ByteXor(ByteXor(a, b), ByteXor(c, d))

\* The column c (from 0) of a 16-byte grid: positions c, c+4, c+8, c+12
Column(grid, c) == << grid[c + 1], grid[c + 5], grid[c + 9], grid[c + 13] >>

MixedColumn(a) ==
    << Xor4(Times2(a[1]), Times3(a[2]), a[3], a[4]),
       Xor4(a[1], Times2(a[2]), Times3(a[3]), a[4]),
       Xor4(a[1], a[2], Times2(a[3]), Times3(a[4])),
       Xor4(Times3(a[1]), a[2], a[3], Times2(a[4])) >>

\* C8: mix_columns of a 16-byte grid replaces every column [a0,a1,a2,a3] by
\* [2a0^3a1^a2^a3, a0^2a1^3a2^a3, a0^a1^2a2^3a3, 3a0^a1^a2^2a3] at the same
\* four positions; the column [219,19,83,69] becomes [142,77,161,188].
MixColumnsMatrix ==
    (call.fn = "mix_columns" /\ Len(call.data) = 16)
    => /\ Len(call.ret) = 16
       /\ \A c \in 0..3 :
            /\ Column(call.ret, c) = MixedColumn(Column(call.data, c))
            /\ Column(call.data, c) = << 219, 19, 83, 69 >>
                 => Column(call.ret, c) = << 142, 77, 161, 188 >>

MixColumnsMatrixWitness ==
    /\ call.fn = "mix_columns"
    /\ Column(call.data, 2) = << 219, 19, 83, 69 >>
    /\ Column(call.ret, 2) = << 142, 77, 161, 188 >>
    /\ Column(call.ret, 1) = << 159, 220, 88, 157 >>

\* C9: shift_grid of a 16-byte grid returns 16 bytes with
\* output[4r + j] = input[4r + ((j + r) mod 4)]: row r rotated left by r.
ShiftRowsRotation ==
    (call.fn = "shift_grid" /\ Len(call.data) = 16)
    => /\ Len(call.ret) = 16
       /\ \A r \in 0..3, j \in 0..3 :
            call.ret[4 * r + j + 1] = call.data[4 * r + ((j + r) % 4) + 1]

ShiftRowsRotationWitness ==
    /\ call.fn = "shift_grid"
    /\ call.data = TestGrid
    /\ call.ret = << 0, 1, 2, 3, 5, 6, 7, 4, 10, 11, 8, 9, 15, 12, 13, 14 >>

\* C10: add_roundkey of 16 bytes b and a 16-byte key k returns 16 bytes,
\* byte i being b[i] XOR k[i], and add_roundkey of that result with k is b.
AddRoundKeyXor ==
    (call.fn = "add_roundkey" /\ Len(call.data) = 16 /\ Len(call.keys[1]) = 16)
    => /\ Len(call.ret) = 16
       /\ \A i \in 1..16 : IsXorOf(call.ret[i], call.data[i], call.keys[1][i])
       /\ call.prev # Panic => call.ret = call.prev

AddRoundKeyXorWitness ==
    /\ call.fn = "add_roundkey"
    /\ call.prev = TestGrid
    /\ call.keys = << TestKey >>
    /\ call.data = << 0, 3, 6, 11, 8, 4, 5, 2, 15, 0, 1, 6, 3, 15, 13, 11 >>
    /\ call.ret = TestGrid
====
